---------------------------- MODULE Spec2Model ----------------------------
(***************************************************************************)
(* Model of scripts/import_recipe_manual.py: parse_recipe_text, the        *)
(* normalizer and the line classifier of the recipe importer.              *)
(*                                                                         *)
(* A text is a sequence of characters; a character is a one-character      *)
(* string, except the non-ASCII glyphs the code names, which are written   *)
(* "BULLET" (U+2022), "EMDASH" (U+2014), "BAR3" (U+2E3B), "HALF",          *)
(* "QUARTER" and "THREEQ" (the fraction glyphs).  "\\" is one backslash.   *)
(***************************************************************************)
EXTENDS Integers, Sequences, FiniteSets, TLC

VARIABLES
    text,             \* the argument of parse_recipe_text
    normalized,       \* the text as rewritten so far (lines 36-54)
    lines,            \* the normalized line sequence (line 56)
    idx,              \* number of lines the for loop (line 67) has consumed
    current_section,  \* "None", "ingredients" or "instructions" (line 60)
    ingredients,      \* the ingredients list (line 58)
    instructions,     \* the instructions list (line 59)
    ingSrc,           \* history: index in lines of each element of ingredients
    insSrc,           \* history: index in lines of each element of instructions
    pc,               \* the statement to run next: a step of the normalizer,
                      \* "scan" (the for loop) or "done" (returned)
    pass,             \* 1: first call; 2: call on the first call's instructions
    prevInstructions, \* instructions returned by the first call (pass 2 only)
    file_exists,      \* os.path.exists(recipes_file)
    file_recipes,     \* the collection recipes_file holds, a list of records
    runs,             \* the script runs: what each was started with, where it
                      \* is, its local variable recipes and what it returned
    started           \* number of script runs started so far

\* the variables of the collection scripts
storeVars == <<file_exists, file_recipes, runs, started>>

\* the variables of parse_recipe_text
parserVars == <<text, normalized, lines, idx, current_section, ingredients,
                instructions, ingSrc, insSrc, pc, pass, prevInstructions>>

vars == <<text, normalized, lines, idx, current_section, ingredients, instructions,
          ingSrc, insSrc, pc, pass, prevInstructions,
          file_exists, file_recipes, runs, started>>

---------------------------------------------------------------------------
(* Character classes of Python's re and str, restricted to the alphabet.   *)

NL == "\n"
TAB == "\t"
CR == "\r"
BSL == "\\"

\* \s and str.strip(): whitespace
IsSpace(c) == c \in {" ", NL, TAB, CR}

\* \d
IsDigit(c) == c \in {"0", "1", "2", "3", "4", "5", "6", "7", "8", "9"}

UpperCase == {"A", "B", "C", "D", "E", "F", "G", "H", "I", "J", "K", "L", "M",
              "N", "O", "P", "Q", "R", "S", "T", "U", "V", "W", "X", "Y", "Z"}

LowerCase == {"a", "b", "c", "d", "e", "f", "g", "h", "i", "j", "k", "l", "m",
              "n", "o", "p", "q", "r", "s", "t", "u", "v", "w", "x", "y", "z"}

\* \w: letters, digits, underscore and (str.isalnum) the fraction glyphs
IsWordChar(c) ==
    \/ c \in UpperCase \/ c \in LowerCase \/ IsDigit(c) \/ c = "_"
    \/ c \in {"HALF", "QUARTER", "THREEQ"}

\* [•\-\*]
IsBullet(c) == c \in {"BULLET", "-", "*"}

LowerOf ==
    [c \in UpperCase |->
        CASE c = "A" -> "a" [] c = "B" -> "b" [] c = "C" -> "c" [] c = "D" -> "d"
          [] c = "E" -> "e" [] c = "F" -> "f" [] c = "G" -> "g" [] c = "H" -> "h"
          [] c = "I" -> "i" [] c = "J" -> "j" [] c = "K" -> "k" [] c = "L" -> "l"
          [] c = "M" -> "m" [] c = "N" -> "n" [] c = "O" -> "o" [] c = "P" -> "p"
          [] c = "Q" -> "q" [] c = "R" -> "r" [] c = "S" -> "s" [] c = "T" -> "t"
          [] c = "U" -> "u" [] c = "V" -> "v" [] c = "W" -> "w" [] c = "X" -> "x"
          [] c = "Y" -> "y" [] c = "Z" -> "z"]

\* str.lower(), of one character
LowerChar(c) == IF c \in UpperCase THEN LowerOf[c] ELSE c

\* str.lower()
Lower(s) ==
    LET f == [k \in 1..Len(s) |-> LowerChar(s[k])]
    IN  SubSeq(f, 1, Len(s))

\* pat occurs in s.lower() at position p
LowerMatchAt(s, pat, p) ==
    /\ p >= 1
    /\ p + Len(pat) - 1 <= Len(s)
    /\ \A k \in 1..Len(pat) : LowerChar(s[p + k - 1]) = pat[k]

---------------------------------------------------------------------------
(* String primitives.                                                      *)

\* pat occurs in s at position p (1-based)
MatchAt(s, pat, p) ==
    /\ p >= 1
    /\ p + Len(pat) - 1 <= Len(s)
    /\ \A k \in 1..Len(pat) : s[p + k - 1] = pat[k]

\* keyword in s
Contains(s, pat) == \E p \in 1..(Len(s) - Len(pat) + 1) : MatchAt(s, pat, p)

\* s.startswith(pat)
StartsWith(s, pat) == MatchAt(s, pat, 1)

\* s from position p to the end
From(s, p) == IF p > Len(s) THEN <<>> ELSE SubSeq(s, p, Len(s))

\* first position >= p of s that holds no whitespace (Len(s)+1 if none): \s*
RECURSIVE SkipSpace(_, _)
SkipSpace(s, p) ==
    IF p <= Len(s) /\ IsSpace(s[p]) THEN SkipSpace(s, p + 1) ELSE p

\* first position >= p of s that holds no digit: \d*
RECURSIVE SkipDigits(_, _)
SkipDigits(s, p) ==
    IF p <= Len(s) /\ IsDigit(s[p]) THEN SkipDigits(s, p + 1) ELSE p

\* first position >= p of s that does not hold c: c*
RECURSIVE SkipChar(_, _, _)
SkipChar(s, c, p) ==
    IF p <= Len(s) /\ s[p] = c THEN SkipChar(s, c, p + 1) ELSE p

\* last position <= p of s that holds no whitespace (0 if none)
RECURSIVE SkipSpaceBack(_, _)
SkipSpaceBack(s, p) ==
    IF p >= 1 /\ IsSpace(s[p]) THEN SkipSpaceBack(s, p - 1) ELSE p

\* str.strip()
Strip(s) ==
    LET a == SkipSpace(s, 1)
        b == SkipSpaceBack(s, Len(s))
    IN  IF a > b THEN <<>> ELSE SubSeq(s, a, b)

\* the least element of a set of positions, 0 if there is none: where the
\* leftmost match of a search starts
FirstIn(S) == IF S = {} THEN 0 ELSE CHOOSE x \in S : \A y \in S : x <= y

\* str.replace(pat, rep): leftmost, non-overlapping occurrences
\* (q is the start of the leftmost occurrence at or after p, 0 if none)
RECURSIVE ReplaceFrom(_, _, _, _)
ReplaceAt(s, pat, rep, p, q) ==
    IF q = 0 THEN From(s, p)
    ELSE SubSeq(s, p, q - 1) \o rep \o ReplaceFrom(s, pat, rep, q + Len(pat))

ReplaceFrom(s, pat, rep, p) ==
    ReplaceAt(s, pat, rep, p, FirstIn({k \in p..Len(s) : MatchAt(s, pat, k)}))

Replace(s, pat, rep) == ReplaceFrom(s, pat, rep, 1)

\* re.sub(c{n,}, rep, s): every maximal run of at least n characters c
RECURSIVE SubRunsFrom(_, _, _, _, _)
SubRunsAt(s, c, n, rep, p, q) ==
    IF q = 0 THEN From(s, p)
    ELSE SubSeq(s, p, q - 1) \o rep \o SubRunsFrom(s, c, n, rep, SkipChar(s, c, q))

SubRunsFrom(s, c, n, rep, p) ==
    SubRunsAt(s, c, n, rep, p,
              FirstIn({k \in p..Len(s) : s[k] = c /\ SkipChar(s, c, k) - k >= n}))

SubRuns(s, c, n, rep) == SubRunsFrom(s, c, n, rep, 1)

\* str.split('\n')
RECURSIVE SplitFrom(_, _)
SplitAt(s, p, q) ==
    IF q = 0 THEN <<From(s, p)>>
    ELSE <<SubSeq(s, p, q - 1)>> \o SplitFrom(s, q + 1)

SplitFrom(s, p) == SplitAt(s, p, FirstIn({k \in p..Len(s) : s[k] = NL}))

Split(s) == SplitFrom(s, 1)

\* the elements of a sequence
Range(seq) == { seq[k] : k \in DOMAIN seq }

\* '\n'.join(ls)
RECURSIVE Join(_)
Join(ls) ==
    IF ls = <<>> THEN <<>>
    ELSE IF Len(ls) = 1 THEN ls[1]
    ELSE ls[1] \o <<NL>> \o Join(Tail(ls))

---------------------------------------------------------------------------
(* The normalizer, lines 34-56 of import_recipe_manual.py.                 *)

\* (\s|^)c at position q of s: the character c after whitespace, or at the
\* start of the text
MarkerAt(s, c, q) ==
    \/ IsSpace(s[q]) /\ q + 1 <= Len(s) /\ s[q + 1] = c
    \/ q = 1 /\ s[q] = c

\* the position of the marker character of a match of (\s|^)c at q
MarkerPos(s, q) == IF IsSpace(s[q]) THEN q + 1 ELSE q

\* re.sub(r'(\s|^)•\s*', '\n', s): a bullet glyph after whitespace or at the
\* start of the text, with the whitespace that follows it, becomes a line
\* break.  The search resumes after the match, so whitespace a match consumed
\* cannot introduce the next one.
RECURSIVE SubBulletFrom(_, _)
SubBulletAt(s, p, q) ==
    IF q = 0 THEN From(s, p)
    ELSE SubSeq(s, p, q - 1) \o <<NL>>
             \o SubBulletFrom(s, SkipSpace(s, MarkerPos(s, q) + 1))

SubBulletFrom(s, p) ==
    SubBulletAt(s, p, FirstIn({k \in p..Len(s) : MarkerAt(s, "BULLET", k)}))

SubBullet(s) == SubBulletFrom(s, 1)

\* re.sub(r'(\s|^)\*\s+', r'\n* ', s)
RECURSIVE SubStarFrom(_, _)
SubStarAt(s, p, q) ==
    IF q = 0 THEN From(s, p)
    ELSE SubSeq(s, p, q - 1) \o <<NL, "*", " ">>
             \o SubStarFrom(s, SkipSpace(s, MarkerPos(s, q) + 1))

SubStarFrom(s, p) ==
    SubStarAt(s, p, FirstIn({k \in p..Len(s) :
                               /\ MarkerAt(s, "*", k)
                               /\ MarkerPos(s, k) + 1 <= Len(s)
                               /\ IsSpace(s[MarkerPos(s, k) + 1])}))

SubStar(s) == SubStarFrom(s, 1)

\* \s+(\d+)\.\s+ matches at position q of s
NumberedAt(s, q) ==
    LET d == SkipSpace(s, q)      \* the first digit
        e == SkipDigits(s, d)     \* the dot
        f == SkipSpace(s, e + 1)  \* after the trailing whitespace
    IN  /\ IsSpace(s[q])
        /\ e > d
        /\ e <= Len(s) /\ s[e] = "."
        /\ f > e + 1

\* re.sub(r'\s+(\d+)\.\s+', r'\n\1. ', s)
RECURSIVE SubNumberedFrom(_, _)
SubNumberedAt(s, p, q) ==
    LET d == SkipSpace(s, q)
        e == SkipDigits(s, d)
    IN  IF q = 0 THEN From(s, p)
        ELSE SubSeq(s, p, q - 1) \o <<NL>> \o SubSeq(s, d, e - 1) \o <<".", " ">>
                 \o SubNumberedFrom(s, SkipSpace(s, e + 1))

SubNumberedFrom(s, p) ==
    SubNumberedAt(s, p, FirstIn({k \in p..Len(s) : NumberedAt(s, k)}))

SubNumbered(s) == SubNumberedFrom(s, 1)

\* [line.strip() for line in pieces if line.strip()]
RECURSIVE StripNonEmpty(_)
StripNonEmpty(ps) ==
    IF ps = <<>> THEN <<>>
    ELSE LET h == Strip(Head(ps))
         IN  IF h = <<>> THEN StripNonEmpty(Tail(ps))
             ELSE <<h>> \o StripNonEmpty(Tail(ps))

---------------------------------------------------------------------------
(* The classifier, lines 58-144 of import_recipe_manual.py.                *)

\* line 63
ingredient_keywords ==
    { <<"i", "n", "g", "r", "e", "d", "i", "e", "n", "t">>,
      <<"i", "n", "g", "r", "e", "d", "i", "e", "n", "t", "s">>,
      <<"w", "h", "a", "t", " ", "y", "o", "u", " ", "n", "e", "e", "d">>,
      <<"y", "o", "u", " ", "w", "i", "l", "l", " ", "n", "e", "e", "d">> }

\* lines 64-65
instruction_keywords ==
    { <<"i", "n", "s", "t", "r", "u", "c", "t", "i", "o", "n">>,
      <<"i", "n", "s", "t", "r", "u", "c", "t", "i", "o", "n", "s">>,
      <<"d", "i", "r", "e", "c", "t", "i", "o", "n">>,
      <<"d", "i", "r", "e", "c", "t", "i", "o", "n", "s">>,
      <<"s", "t", "e", "p", "s">>,
      <<"m", "e", "t", "h", "o", "d">>,
      <<"p", "r", "e", "p", "a", "r", "a", "t", "i", "o", "n">>,
      <<"h", "o", "w", " ", "t", "o", " ", "m", "a", "k", "e">> }

\* line 121: the alternatives of measurement_pattern
measurement_words ==
    { <<"c", "u", "p">>,
      <<"c", "u", "p", "s">>,
      <<"t", "a", "b", "l", "e", "s", "p", "o", "o", "n">>,
      <<"t", "b", "s", "p">>,
      <<"t", "e", "a", "s", "p", "o", "o", "n">>,
      <<"t", "s", "p">>,
      <<"o", "u", "n", "c", "e">>,
      <<"o", "z">>,
      <<"p", "o", "u", "n", "d">>,
      <<"l", "b">>,
      <<"g", "r", "a", "m">>,
      <<"g", "r", "a", "m", "s">>,
      <<"g">>,
      <<"k", "g">>,
      <<"m", "l">>,
      <<"l", "i", "t", "e", "r">>,
      <<"p", "i", "n", "c", "h">>,
      <<"d", "a", "s", "h">> }

\* line 123: the unit alternatives of the quantity pattern
quantity_units ==
    { <<"c", "u", "p">>,
      <<"t", "b", "s", "p">>,
      <<"t", "s", "p">>,
      <<"o", "z">>,
      <<"l", "b">>,
      <<"g">>,
      <<"k", "g">>,
      <<"m", "l">> }

\* line 75: an ingredients header is shorter than this
IngredientHeaderMaxLen == 100

\* line 83: an instructions header is shorter than this
InstructionHeaderMaxLen == 100

\* line 98: shorter lines are skipped
MinLineLen == 3

\* line 124: an ingredient guessed from its content is shorter than this
ShortLineLen == 150

\* re.match(r'^\d+\.', line), lines 72 and 125
is_numbered(line) ==
    LET e == SkipDigits(line, 1)
    IN  e > 1 /\ e <= Len(line) /\ line[e] = "."

\* lines 76-79 and 84-87: the any(...) over a keyword list
AnyKeyword(l, keywords) ==
    \E keyword \in keywords :
        \/ Contains(l, keyword)
        \/ StartsWith(l, keyword \o <<":">>)
        \/ l = keyword

\* lower_line.strip() of lines 68, 76-78 and 84-86
MatchesKeyword(line, keywords) == AnyKeyword(Strip(Lower(line)), keywords)

\* is_ingredient_header with <= written for <
is_ingredient_header_inclusive(line) ==
    /\ ~is_numbered(line)
    /\ Len(line) <= IngredientHeaderMaxLen
    /\ MatchesKeyword(line, ingredient_keywords)

\* lines 73-80
is_ingredient_header(line) ==
    /\ ~is_numbered(line)
    /\ Len(line) < IngredientHeaderMaxLen
    /\ MatchesKeyword(line, ingredient_keywords)

\* lines 81-88
is_instruction_header(line) ==
    /\ ~is_numbered(line)
    /\ Len(line) < InstructionHeaderMaxLen
    /\ MatchesKeyword(line, instruction_keywords)

\* re.sub(r'^[•\-\*]\s*', '', line), lines 104, 111 and 128
StripBullet(line) ==
    IF Len(line) >= 1 /\ IsBullet(line[1])
    THEN From(line, SkipSpace(line, 2))
    ELSE line

\* re.sub(r'^\d+\.\s*', '', line), lines 110 and 132
StripNumber(line) ==
    IF is_numbered(line)
    THEN From(line, SkipSpace(line, SkipDigits(line, 1) + 1))
    ELSE line

\* line 104: what the ingredients section keeps of a line
cleaned_ingredient(line) == StripBullet(line)

\* lines 110-111: what the instructions section keeps of a line
cleaned_instruction(line) == StripBullet(StripNumber(line))

\* cleaned_step without line 132
cleaned_step_keeps_number(line) == StripBullet(line)

\* lines 128 and 132: what a numbered line keeps when no header was seen
cleaned_step(line) == StripNumber(StripBullet(line))

\* \b before position p of s / after position p - 1 of s, next to a word
\* character on the other side
BoundaryBefore(s, p) == IF p = 1 THEN TRUE ELSE ~IsWordChar(s[p - 1])
BoundaryAfter(s, p) == IF p > Len(s) THEN TRUE ELSE ~IsWordChar(s[p])

\* \b(...)\b at position p of the lowercased line, for some alternative of
\* measurement_pattern (lower() changes neither the length of the line nor
\* which of its characters are word characters)
MeasurementAt(line, p) ==
    /\ BoundaryBefore(line, p)
    /\ \E w \in measurement_words :
        /\ LowerMatchAt(line, w, p)
        /\ BoundaryAfter(line, p + Len(w))

\* re.search(measurement_pattern, lower_line), lines 68 and 122
has_measurement(line) == \E p \in 1..Len(line) : MeasurementAt(line, p)

\* re.match(r'^\d+(/\d+)?\s*(½|¼|¾)?\s*(cup|tbsp|tsp|oz|lb|g|kg|ml)',
\* lower_line), line 123.  Each step of the pattern has one way to match:
\* what follows a run of digits, of whitespace or the optional groups can
\* start none of them.
starts_with_number_quantity(line) ==
    LET a == SkipDigits(line, 1)
        b == IF a <= Len(line) /\ line[a] = "/" /\ SkipDigits(line, a + 1) > a + 1
             THEN SkipDigits(line, a + 1) ELSE a
        c == SkipSpace(line, b)
        d == IF c <= Len(line) /\ line[c] \in {"HALF", "QUARTER", "THREEQ"}
             THEN c + 1 ELSE c
        e == SkipSpace(line, d)
    IN  /\ a > 1
        /\ \E u \in quantity_units : LowerMatchAt(line, u, e)

\* is_short with <= written for <
is_short_inclusive(line) == Len(line) <= ShortLineLen

\* line 124
is_short(line) == Len(line) < ShortLineLen

\* guessed_ingredient without the length test
guessed_ingredient_any_length(line) ==
    has_measurement(line) \/ starts_with_number_quantity(line)

\* line 135: the content test of the no-header path
guessed_ingredient(line) ==
    (has_measurement(line) \/ starts_with_number_quantity(line)) /\ is_short(line)

---------------------------------------------------------------------------
(* The collection scripts: import_recipe_manual.py (add_recipe_manual),    *)
(* ingest_recipe.py (add_recipe), delete_recipe.py, update_notes.py and    *)
(* update_recipe_metadata.py.  Each run loads recipes_file, works on its   *)
(* own list and, unless it gives up, saves the list back.                  *)

\* Python's None
None == "None"

\* a key that a dictionary does not hold
Absent == "Absent"

\* [^a-z0-9\s-] does not match c (line 18)
KeepIdChar(c) == c \in LowerCase \/ IsDigit(c) \/ IsSpace(c) \/ c = "-"

\* re.sub(r'\s+', '-', s) (line 19)
RECURSIVE SpaceRunsToDash(_, _)
SpaceRunsToDash(s, p) ==
    IF p > Len(s) THEN <<>>
    ELSE IF IsSpace(s[p]) THEN <<"-">> \o SpaceRunsToDash(s, SkipSpace(s, p))
    ELSE <<s[p]>> \o SpaceRunsToDash(s, p + 1)

\* last position <= p of s that does not hold c (0 if none)
RECURSIVE SkipCharBack(_, _, _)
SkipCharBack(s, c, p) ==
    IF p >= 1 /\ s[p] = c THEN SkipCharBack(s, c, p - 1) ELSE p

\* s.strip('-') (line 21)
StripDashes(s) ==
    IF SkipChar(s, "-", 1) > SkipCharBack(s, "-", Len(s)) THEN <<>>
    ELSE SubSeq(s, SkipChar(s, "-", 1), SkipCharBack(s, "-", Len(s)))

\* lines 15-21
generate_recipe_id(title) ==
    StripDashes(
        SubRuns(SpaceRunsToDash(SelectSeq(Lower(title), KeepIdChar), 1),
                "-", 1, <<"-">>))

\* the fields update_recipe_metadata may set (lines 60-103)
MetadataFields ==
    {"description", "image", "prepTime", "cookTime", "servings", "sourceUrl"}

\* create_recipe, lines 161-188: parsed is what parse_recipe_text returned
create_recipe(args, parsed) ==
    [ id           |-> generate_recipe_id(args.title),
      title        |-> args.title,
      description  |-> args.description,
      prepTime     |-> args.prep_time,
      cookTime     |-> args.cook_time,
      servings     |-> args.servings,
      image        |-> args.image,
      tags         |-> <<>>,
      ingredients  |-> parsed.ingredients,
      instructions |-> parsed.instructions,
      notes        |-> "",
      sourceUrl    |-> args.source,
      dateAdded    |-> "today" ]

\* load_recipes (lines 147-152): the list in the file, [] if there is none
load_recipes == IF file_exists THEN file_recipes ELSE <<>>

\* save_recipes (lines 155-158)
save_recipes(recipes) ==
    /\ file_exists' = TRUE
    /\ file_recipes' = recipes

\* [r['id'] for r in recipes]
existing_ids(recipes) == { recipes[k].id : k \in DOMAIN recipes }

\* [r for r in recipes if r['id'] != recipe_id]
WithoutId(recipes, recipe_id) ==
    LET Other(rec) == rec.id # recipe_id
    IN  SelectSeq(recipes, Other)

\* index of the last record of recipe_id, 0 if there is none
LastWithId(recipes, recipe_id) ==
    IF \A k \in DOMAIN recipes : recipes[k].id # recipe_id THEN 0
    ELSE CHOOSE k \in DOMAIN recipes :
            /\ recipes[k].id = recipe_id
            /\ \A j \in DOMAIN recipes : recipes[j].id = recipe_id => j <= k

\* index of the record the for loop breaks at, 0 if it finds none
FirstWithId(recipes, recipe_id) ==
    FirstIn({k \in DOMAIN recipes : recipes[k].id = recipe_id})

\* 'f' in updates, whatever its value
ProvidedEvenNone(updates, f) == updates[f] # Absent

\* 'f' in updates and updates['f'] is not None
Provided(updates, f) == updates[f] # Absent /\ updates[f] # None

\* updated_fields, as a set
updated_fields(updates) == {f \in MetadataFields : Provided(updates, f)}

\* lines 60-103: the record with every provided field set
WithUpdates(rec, updates) ==
    [rec EXCEPT
        !.description = IF Provided(updates, "description")
                        THEN updates.description ELSE @,
        !.image = IF Provided(updates, "image") THEN updates.image ELSE @,
        !.prepTime = IF Provided(updates, "prepTime") THEN updates.prepTime ELSE @,
        !.cookTime = IF Provided(updates, "cookTime") THEN updates.cookTime ELSE @,
        !.servings = IF Provided(updates, "servings") THEN updates.servings ELSE @,
        !.sourceUrl = IF Provided(updates, "sourceUrl")
                      THEN updates.sourceUrl ELSE @]

\* bounds of the runs
MaxRuns == 2
MaxStored == 3
MaxConcurrent == 2

Runs == 1..MaxConcurrent

PieTitle ==
    <<"P", "i", "e">>

PieBangTitle ==
    <<"p", "i", "e", "!">>

RyePieTitle ==
    <<"R", "y", "e", " ", " ", "P", "i", "e", " ", "-">>

Titles == {PieTitle, PieBangTitle, RyePieTitle}

CakeId ==
    <<"c", "a", "k", "e">>

\* the ids a script may be called with: those of the titles and one more
RecipeIds == {generate_recipe_id(t) : t \in Titles} \cup {CakeId}

\* the arguments of import_recipe_manual.py (lines 275-282)
ManualArgs ==
    { [title |-> t, text |-> "text", prep_time |-> "", cook_time |-> "",
       servings |-> "", description |-> "", image |-> "", source |-> ""] :
      t \in Titles }

\* what parse_recipe_text returned for args.text
ParseResults == { [ingredients |-> <<"2 cups flour">>, instructions |-> <<"Mix">>] }

\* what scrape_recipe returns when it finds a recipe (lines 270-329)
Scraped ==
    { create_recipe([title |-> t, text |-> "", prep_time |-> "10 min",
                     cook_time |-> "", servings |-> "", description |-> "",
                     image |-> "", source |-> "url"],
                    [ingredients |-> <<"1 egg">>, instructions |-> <<"Boil">>]) :
      t \in Titles }

\* a record the file holds at the start
Stored(t) ==
    create_recipe([title |-> t, text |-> "", prep_time |-> "", cook_time |-> "",
                   servings |-> "", description |-> "old", image |-> "",
                   source |-> ""],
                  [ingredients |-> <<"salt">>, instructions |-> <<"Stir">>])

StoredRecipes == {Stored(PieTitle), Stored(RyePieTitle)}

\* the collections the file may hold at the start (ids may repeat: the file
\* can be edited by hand)
Collections ==
    UNION { [1..n -> StoredRecipes] : n \in 0..MaxStored }

\* the **updates a run of update_recipe_metadata may be given
NoUpdates == [f \in MetadataFields |-> Absent]

UpdateChoices ==
    { NoUpdates,
      [NoUpdates EXCEPT !.description = None],
      [NoUpdates EXCEPT !.description = "new"],
      [NoUpdates EXCEPT !.description = None, !.image = "new", !.prepTime = "new",
                        !.cookTime = "new", !.servings = "new",
                        !.sourceUrl = "new"] }

NotesChoices == {"note"}

\* the overwrite decision of add_recipe (lines 372-385): auto_overwrite or
\* no terminal, or the answer typed
Answers == {"auto", "y", "n"}

NoRecipe ==
    create_recipe([title |-> <<>>, text |-> "", prep_time |-> "", cook_time |-> "",
                   servings |-> "", description |-> "", image |-> "", source |-> ""],
                  [ingredients |-> <<>>, instructions |-> <<>>])

\* a run that has not been started
IdleRun ==
    [ op |-> "none", at |-> "idle", recipe_id |-> <<>>, notes |-> "",
      updates |-> NoUpdates, recipe_data |-> NoRecipe, answer |-> "auto",
      recipes |-> <<>>, loaded |-> <<>>, result |-> "none" ]

\* no script is running and there is no file
NoScriptRuns ==
    /\ file_exists = FALSE
    /\ file_recipes = <<>>
    /\ runs = [r \in Runs |-> IdleRun]
    /\ started = 0

\* parse_recipe_text is not being called
ParserIdle ==
    /\ text = <<>>
    /\ normalized = <<>>
    /\ lines = <<>>
    /\ idx = 0
    /\ current_section = "None"
    /\ ingredients = <<>>
    /\ instructions = <<>>
    /\ ingSrc = <<>>
    /\ insSrc = <<>>
    /\ pc = "idle"
    /\ pass = 1
    /\ prevInstructions = <<>>

InitStore ==
    /\ ParserIdle
    /\ file_exists \in BOOLEAN
    /\ file_recipes \in (IF file_exists THEN Collections ELSE {<<>>})
    /\ runs = [r \in Runs |-> IdleRun]
    /\ started = 0

\* run r can be started
CanStart(r) == runs[r].at \in {"idle", "done"} /\ started < MaxRuns

\* run r starts as run and nothing is written
Begin(r, run) ==
    /\ CanStart(r)
    /\ runs' = [runs EXCEPT ![r] = run]
    /\ started' = started + 1
    /\ UNCHANGED <<file_exists, file_recipes, parserVars>>

\* run r is between its load and its save
Loaded(r, op) == runs[r].at = "loaded" /\ runs[r].op = op

\* run r returns result without writing the file
GiveUp(r, result) ==
    /\ runs' = [runs EXCEPT ![r].at = "done", ![r].result = result]
    /\ UNCHANGED <<file_exists, file_recipes, started, parserVars>>

\* run r saves recipes and returns True
SaveAndReturn(r, recipes) ==
    /\ save_recipes(recipes)
    /\ runs' = [runs EXCEPT ![r].at = "done", ![r].result = "True",
                            ![r].recipes = recipes]
    /\ UNCHANGED <<started, parserVars>>

\* add_recipe_manual, lines 195-212
AddManualLoad(r) ==
    \E args \in ManualArgs, parsed \in ParseResults :
        Begin(r, [IdleRun EXCEPT !.op = "add_recipe_manual", !.at = "loaded",
                                 !.recipes = load_recipes, !.loaded = load_recipes,
                                 !.recipe_data = create_recipe(args, parsed)])

\* the new record appended with nothing removed
WithRecipeKeepsOld(recipes, recipe_data) == Append(recipes, recipe_data)

\* lines 255-261 and 371-388: drop the records with the new id, append
WithRecipe(recipes, recipe_data) ==
    Append(IF recipe_data.id \in existing_ids(recipes)
           THEN WithoutId(recipes, recipe_data.id)
           ELSE recipes,
           recipe_data)

\* add_recipe_manual, lines 254-269
AddManualSave(r) ==
    /\ Loaded(r, "add_recipe_manual")
    /\ SaveAndReturn(r, WithRecipe(runs[r].recipes, runs[r].recipe_data))

\* add_recipe, lines 358-362: nothing scraped, sys.exit(1)
AddUrlScrapeFailed(r) ==
    Begin(r, [IdleRun EXCEPT !.op = "add_recipe", !.at = "done", !.result = "exit"])

\* add_recipe, lines 358-367
AddUrlLoad(r) ==
    \E recipe_data \in Scraped, answer \in Answers :
        Begin(r, [IdleRun EXCEPT !.op = "add_recipe", !.at = "loaded",
                                 !.recipes = load_recipes, !.loaded = load_recipes,
                                 !.recipe_data = recipe_data, !.answer = answer])

\* lines 375-380: the id exists and the answer typed is not y
Declined(r) ==
    /\ runs[r].recipe_data.id \in existing_ids(runs[r].recipes)
    /\ runs[r].answer = "n"

\* add_recipe, lines 378-380: sys.exit(0)
AddUrlDeclined(r) ==
    /\ Loaded(r, "add_recipe")
    /\ Declined(r)
    /\ GiveUp(r, "exit")

\* add_recipe, lines 370-396
AddUrlSave(r) ==
    /\ Loaded(r, "add_recipe")
    /\ ~Declined(r)
    /\ SaveAndReturn(r, WithRecipe(runs[r].recipes, runs[r].recipe_data))

\* delete_recipe, line 40
DeleteLoad(r) ==
    \E recipe_id \in RecipeIds :
        Begin(r, [IdleRun EXCEPT !.op = "delete_recipe", !.at = "loaded",
                                 !.recipes = load_recipes, !.loaded = load_recipes,
                                 !.recipe_id = recipe_id])

\* delete_recipe, lines 42-58
DeleteNotFound(r) ==
    /\ Loaded(r, "delete_recipe")
    /\ \/ runs[r].recipes = <<>>
       \/ FirstWithId(runs[r].recipes, runs[r].recipe_id) = 0
    /\ GiveUp(r, "False")

\* delete_recipe, lines 60-69
DeleteSave(r) ==
    /\ Loaded(r, "delete_recipe")
    /\ runs[r].recipes # <<>>
    /\ FirstWithId(runs[r].recipes, runs[r].recipe_id) # 0
    /\ SaveAndReturn(r, WithoutId(runs[r].recipes, runs[r].recipe_id))

\* update_recipe_notes, line 41
NotesLoad(r) ==
    \E recipe_id \in RecipeIds, notes \in NotesChoices :
        Begin(r, [IdleRun EXCEPT !.op = "update_recipe_notes", !.at = "loaded",
                                 !.recipes = load_recipes, !.loaded = load_recipes,
                                 !.recipe_id = recipe_id, !.notes = notes])

\* update_recipe_notes, lines 43-61
NotesNotFound(r) ==
    /\ Loaded(r, "update_recipe_notes")
    /\ \/ runs[r].recipes = <<>>
       \/ FirstWithId(runs[r].recipes, runs[r].recipe_id) = 0
    /\ GiveUp(r, "False")

\* update_recipe_notes, lines 47-66
NotesSave(r) ==
    /\ Loaded(r, "update_recipe_notes")
    /\ runs[r].recipes # <<>>
    /\ FirstWithId(runs[r].recipes, runs[r].recipe_id) # 0
    /\ SaveAndReturn(r,
         [runs[r].recipes EXCEPT
            ![FirstWithId(runs[r].recipes, runs[r].recipe_id)].notes = runs[r].notes])

\* update_recipe_metadata, line 41
MetadataLoad(r) ==
    \E recipe_id \in RecipeIds, updates \in UpdateChoices :
        Begin(r, [IdleRun EXCEPT !.op = "update_recipe_metadata", !.at = "loaded",
                                 !.recipes = load_recipes, !.loaded = load_recipes,
                                 !.recipe_id = recipe_id, !.updates = updates])

\* update_recipe_metadata, lines 43-45 and 107-112
MetadataNotFound(r) ==
    /\ Loaded(r, "update_recipe_metadata")
    /\ \/ runs[r].recipes = <<>>
       \/ FirstWithId(runs[r].recipes, runs[r].recipe_id) = 0
    /\ GiveUp(r, "False")

\* update_recipe_metadata, lines 114-116
MetadataNothingToUpdate(r) ==
    /\ Loaded(r, "update_recipe_metadata")
    /\ runs[r].recipes # <<>>
    /\ FirstWithId(runs[r].recipes, runs[r].recipe_id) # 0
    /\ updated_fields(runs[r].updates) = {}
    /\ GiveUp(r, "False")

\* update_recipe_metadata, lines 47-127
MetadataSave(r) ==
    /\ Loaded(r, "update_recipe_metadata")
    /\ runs[r].recipes # <<>>
    /\ FirstWithId(runs[r].recipes, runs[r].recipe_id) # 0
    /\ updated_fields(runs[r].updates) # {}
    /\ SaveAndReturn(r,
         [runs[r].recipes EXCEPT
            ![FirstWithId(runs[r].recipes, runs[r].recipe_id)] =
                WithUpdates(@, runs[r].updates)])

\* a step of run r
Script(r) ==
    \/ AddManualLoad(r)
    \/ AddManualSave(r)
    \/ AddUrlScrapeFailed(r)
    \/ AddUrlLoad(r)
    \/ AddUrlDeclined(r)
    \/ AddUrlSave(r)
    \/ DeleteLoad(r)
    \/ DeleteNotFound(r)
    \/ DeleteSave(r)
    \/ NotesLoad(r)
    \/ NotesNotFound(r)
    \/ NotesSave(r)
    \/ MetadataLoad(r)
    \/ MetadataNotFound(r)
    \/ MetadataNothingToUpdate(r)
    \/ MetadataSave(r)

\* the scripts run one at a time
NextStore == Script(1)

SpecStore == InitStore /\ [][NextStore]_vars

\* two runs at once: their loads and saves interleave in any order
NextConcurrent == \E r \in Runs : Script(r)

SpecConcurrent == InitStore /\ [][NextConcurrent]_vars

---------------------------------------------------------------------------
(* The input texts: every concatenation of at most MaxPieces pieces.       *)

MaxPieces == 3

IngredientsHeaderPiece ==
    <<"I", "n", "g", "r", "e", "d", "i", "e", "n", "t", "s", NL>>

InstructionsHeaderPiece ==
    <<"I", "n", "s", "t", "r", "u", "c", "t", "i", "o", "n", "s", ":", NL>>

CupsPiece ==
    <<"2", " ", "c", "u", "p", "s", " ", "f", "l", "o", "u", "r", NL>>

PreheatPiece ==
    <<"1", ".", " ", "P", "r", "e", "h", "e", "a", "t", " ", "o", "v",
      "e", "n", " ", "t", "o", " ", "3", "5", "0", "F", NL>>

MixPiece ==
    <<"M", "i", "x", " ", "t", "h", "e", " ", "f", "l", "o", "u", "r",
      " ", "a", "n", "d", " ", "s", "u", "g", "a", "r", " ", "t", "o",
      "g", "e", "t", "h", "e", "r", " ", "u", "n", "t", "i", "l", " ",
      "c", "o", "m", "b", "i", "n", "e", "d", ".", NL>>

DashPiece ==
    <<"-", " ">>

MarkerOnlyPiece ==
    <<"1", "2", ".", NL>>

BulletPiece ==
    <<"BULLET", " ">>

EscapedNewlinePiece ==
    <<BSL, "n">>

\* a line of n characters that names a measurement unit
LongCupsPiece(n) ==
    <<"2", " ", "c", "u", "p", "s", " ">> \o [k \in 1..(n - 7) |-> "x"] \o <<NL>>

Pieces ==
    { IngredientsHeaderPiece, InstructionsHeaderPiece, CupsPiece, PreheatPiece,
      MixPiece, DashPiece, MarkerOnlyPiece, BulletPiece, EscapedNewlinePiece,
      LongCupsPiece(ShortLineLen - 1), LongCupsPiece(ShortLineLen) }

RECURSIVE Concat(_)
Concat(ps) == IF ps = <<>> THEN <<>> ELSE Head(ps) \o Concat(Tail(ps))

Texts == { Concat(ps) : ps \in UNION { [1..n -> Pieces] : n \in 0..MaxPieces } }

---------------------------------------------------------------------------
(* parse_recipe_text as a state machine: normalize, scan the lines one at  *)
(* a time, return.                                                         *)

Init ==
    /\ text \in Texts
    /\ normalized = <<>>
    /\ lines = <<>>
    /\ idx = 0
    /\ current_section = "None"
    /\ ingredients = <<>>
    /\ instructions = <<>>
    /\ ingSrc = <<>>
    /\ insSrc = <<>>
    /\ pc = "UnescapeNewlines"
    /\ pass = 1
    /\ prevInstructions = <<>>
    /\ NoScriptRuns

\* the line the for loop is at
line == lines[idx + 1]

Scanning == pc = "scan" /\ idx < Len(lines)

\* `continue`, or the end of the loop body
NextLine ==
    /\ idx' = idx + 1
    /\ UNCHANGED <<text, normalized, lines, pc, pass, prevInstructions, storeVars>>

\* one statement of the normalizer: normalized becomes result
Rewrite(here, result, next) ==
    /\ pc = here
    /\ normalized' = result
    /\ pc' = next
    /\ UNCHANGED <<text, lines, idx, current_section, ingredients, instructions,
                   ingSrc, insSrc, pass, prevInstructions, storeVars>>

\* line 36: text.replace('\\n', '\n')
UnescapeNewlines ==
    Rewrite("UnescapeNewlines", Replace(text, <<BSL, "n">>, <<NL>>), "UnescapeCrLf")

\* line 36: .replace('\\r\\n', '\n')
UnescapeCrLf ==
    Rewrite("UnescapeCrLf",
            Replace(normalized, <<BSL, "r", BSL, "n">>, <<NL>>), "UnescapeCr")

\* line 36: .replace('\\r', '\n')
UnescapeCr ==
    Rewrite("UnescapeCr", Replace(normalized, <<BSL, "r">>, <<NL>>), "TabsToNewlines")

\* line 39
TabsToNewlines ==
    Rewrite("TabsToNewlines", Replace(normalized, <<TAB>>, <<NL>>), "BarSeparators")

\* line 42
BarSeparators ==
    Rewrite("BarSeparators", SubRuns(normalized, "BAR3", 1, <<NL, NL>>),
            "EmDashSeparators")

\* line 43
EmDashSeparators ==
    Rewrite("EmDashSeparators", SubRuns(normalized, "EMDASH", 1, <<NL, NL>>),
            "DashSeparators")

\* line 44
DashSeparators ==
    Rewrite("DashSeparators", SubRuns(normalized, "-", 3, <<NL, NL>>),
            "EqualsSeparators")

\* line 45
EqualsSeparators ==
    Rewrite("EqualsSeparators", SubRuns(normalized, "=", 3, <<NL, NL>>),
            "DropLoneBullets")

\* line 49
DropLoneBullets ==
    Rewrite("DropLoneBullets", Replace(normalized, <<NL, "BULLET", NL>>, <<NL>>),
            "SplitBullets")

\* line 50
SplitBullets == Rewrite("SplitBullets", SubBullet(normalized), "SplitStars")

\* line 51
SplitStars == Rewrite("SplitStars", SubStar(normalized), "SplitNumbered")

\* line 54
SplitNumbered == Rewrite("SplitNumbered", SubNumbered(normalized), "SplitLines")

\* lines 56-60
SplitLines ==
    /\ pc = "SplitLines"
    /\ lines' = StripNonEmpty(Split(normalized))
    /\ idx' = 0
    /\ current_section' = "None"
    /\ ingredients' = <<>>
    /\ instructions' = <<>>
    /\ ingSrc' = <<>>
    /\ insSrc' = <<>>
    /\ pc' = "scan"
    /\ UNCHANGED <<text, normalized, pass, prevInstructions, storeVars>>

\* line 90
AtIngredientHeader == Scanning /\ is_ingredient_header(line)

\* lines 90-92
IngredientHeader ==
    /\ AtIngredientHeader
    /\ current_section' = "ingredients"
    /\ NextLine
    /\ UNCHANGED <<ingredients, instructions, ingSrc, insSrc>>

\* AtInstructionHeader tested before the ingredients header
AtInstructionHeaderFirst == Scanning /\ is_instruction_header(line)

\* line 93
AtInstructionHeader ==
    Scanning /\ ~is_ingredient_header(line) /\ is_instruction_header(line)

\* lines 93-95
InstructionHeader ==
    /\ AtInstructionHeader
    /\ current_section' = "instructions"
    /\ NextLine
    /\ UNCHANGED <<ingredients, instructions, ingSrc, insSrc>>

\* the line is past the header tests of lines 90-95
NotHeader == ~is_ingredient_header(line) /\ ~is_instruction_header(line)

\* line 98
AtShortLine == Scanning /\ NotHeader /\ Len(line) < MinLineLen

\* the line is past the length test of line 98
AtContentLine == Scanning /\ NotHeader /\ Len(line) >= MinLineLen

\* line 102
InIngredients == AtContentLine /\ current_section = "ingredients"

\* line 107
InInstructions ==
    AtContentLine /\ current_section # "ingredients" /\ current_section = "instructions"

\* line 114
NoSection ==
    AtContentLine /\ current_section # "ingredients" /\ current_section # "instructions"

\* line 130
AtStep == NoSection /\ is_numbered(line)

\* line 135
AtGuessedIngredient == NoSection /\ ~is_numbered(line) /\ guessed_ingredient(line)

\* line 137
AtGuessedInstruction == NoSection /\ ~is_numbered(line) /\ ~guessed_ingredient(line)

\* lines 98-99
SkipShortLine ==
    /\ AtShortLine
    /\ NextLine
    /\ UNCHANGED <<current_section, ingredients, instructions, ingSrc, insSrc>>

\* lines 102-106
SectionIngredient ==
    /\ InIngredients
    /\ LET cleaned == cleaned_ingredient(line)
       IN  IF cleaned # <<>>
           THEN /\ ingredients' = Append(ingredients, cleaned)
                /\ ingSrc' = Append(ingSrc, idx + 1)
           ELSE UNCHANGED <<ingredients, ingSrc>>
    /\ NextLine
    /\ UNCHANGED <<current_section, instructions, insSrc>>

\* SectionInstruction with the content test applied inside the section
SectionInstructionByContent ==
    /\ InInstructions
    /\ LET cleaned == cleaned_instruction(line)
       IN  IF cleaned = <<>>
           THEN UNCHANGED <<ingredients, instructions, ingSrc, insSrc>>
           ELSE IF guessed_ingredient(line)
           THEN /\ ingredients' = Append(ingredients, cleaned)
                /\ ingSrc' = Append(ingSrc, idx + 1)
                /\ UNCHANGED <<instructions, insSrc>>
           ELSE /\ instructions' = Append(instructions, cleaned)
                /\ insSrc' = Append(insSrc, idx + 1)
                /\ UNCHANGED <<ingredients, ingSrc>>
    /\ NextLine
    /\ UNCHANGED current_section

\* lines 107-113
SectionInstruction ==
    /\ InInstructions
    /\ LET cleaned == cleaned_instruction(line)
       IN  IF cleaned # <<>>
           THEN /\ instructions' = Append(instructions, cleaned)
                /\ insSrc' = Append(insSrc, idx + 1)
           ELSE UNCHANGED <<instructions, insSrc>>
    /\ NextLine
    /\ UNCHANGED <<current_section, ingredients, ingSrc>>

\* GuessStep without the test of line 132
GuessStepUnchecked ==
    /\ AtStep
    /\ instructions' = Append(instructions, cleaned_step(line))
    /\ insSrc' = Append(insSrc, idx + 1)
    /\ NextLine
    /\ UNCHANGED <<current_section, ingredients, ingSrc>>

\* lines 130-134
GuessStep ==
    /\ AtStep
    /\ LET cleaned_line == cleaned_step(line)
       IN  IF cleaned_line # <<>>
           THEN /\ instructions' = Append(instructions, cleaned_line)
                /\ insSrc' = Append(insSrc, idx + 1)
           ELSE UNCHANGED <<instructions, insSrc>>
    /\ NextLine
    /\ UNCHANGED <<current_section, ingredients, ingSrc>>

\* GuessIngredient that appends the line to both lists
GuessIngredientAndInstruction ==
    /\ AtGuessedIngredient
    /\ ingredients' = Append(ingredients, StripBullet(line))
    /\ ingSrc' = Append(ingSrc, idx + 1)
    /\ instructions' = Append(instructions, StripBullet(line))
    /\ insSrc' = Append(insSrc, idx + 1)
    /\ NextLine
    /\ UNCHANGED current_section

\* lines 135-136
GuessIngredient ==
    /\ AtGuessedIngredient
    /\ ingredients' = Append(ingredients, StripBullet(line))
    /\ ingSrc' = Append(ingSrc, idx + 1)
    /\ NextLine
    /\ UNCHANGED <<current_section, instructions, insSrc>>

\* GuessInstruction without line 138
GuessInstructionSkipped ==
    /\ AtGuessedInstruction
    /\ NextLine
    /\ UNCHANGED <<current_section, ingredients, instructions, ingSrc, insSrc>>

\* lines 137-138
GuessInstruction ==
    /\ AtGuessedInstruction
    /\ instructions' = Append(instructions, StripBullet(line))
    /\ insSrc' = Append(insSrc, idx + 1)
    /\ NextLine
    /\ UNCHANGED <<current_section, ingredients, ingSrc>>

\* line 141: nothing was parsed
nothing_parsed == ingredients = <<>> /\ instructions = <<>>

\* the for loop of line 67 is over
ScanOver == pc = "scan" /\ idx = Len(lines)

\* GlobalFallback that returns without line 143
GlobalFallbackMissing ==
    /\ ScanOver
    /\ nothing_parsed
    /\ pc' = "done"
    /\ UNCHANGED <<text, normalized, lines, idx, current_section, ingredients,
                   instructions, ingSrc, insSrc, pass, prevInstructions, storeVars>>

\* GlobalFallback that strips the bullets of the lines it returns
GlobalFallbackStripped ==
    /\ ScanOver
    /\ nothing_parsed
    /\ instructions' = [k \in 1..Len(lines) |-> StripBullet(lines[k])]
    /\ insSrc' = [k \in 1..Len(lines) |-> k]
    /\ pc' = "done"
    /\ UNCHANGED <<text, normalized, lines, idx, current_section, ingredients,
                   ingSrc, pass, prevInstructions, storeVars>>

\* lines 141-144: the global fallback, every line becomes an instruction
GlobalFallback ==
    /\ ScanOver
    /\ nothing_parsed
    /\ instructions' = lines
    /\ insSrc' = [k \in 1..Len(lines) |-> k]
    /\ pc' = "done"
    /\ UNCHANGED <<text, normalized, lines, idx, current_section, ingredients,
                   ingSrc, pass, prevInstructions, storeVars>>

\* line 144, the lists as the scan left them
ReturnParsed ==
    /\ ScanOver
    /\ ~nothing_parsed
    /\ pc' = "done"
    /\ UNCHANGED <<text, normalized, lines, idx, current_section, ingredients,
                   instructions, ingSrc, insSrc, pass, prevInstructions, storeVars>>

Next ==
    \/ UnescapeNewlines
    \/ UnescapeCrLf
    \/ UnescapeCr
    \/ TabsToNewlines
    \/ BarSeparators
    \/ EmDashSeparators
    \/ DashSeparators
    \/ EqualsSeparators
    \/ DropLoneBullets
    \/ SplitBullets
    \/ SplitStars
    \/ SplitNumbered
    \/ SplitLines
    \/ IngredientHeader
    \/ InstructionHeader
    \/ SkipShortLine
    \/ SectionIngredient
    \/ SectionInstruction
    \/ GuessStep
    \/ GuessIngredient
    \/ GuessInstruction
    \/ GlobalFallback
    \/ ReturnParsed

Spec == Init /\ [][Next]_vars

\* the statements of the normalizer, in their order
NormalizerSteps ==
    <<"UnescapeNewlines", "UnescapeCrLf", "UnescapeCr", "TabsToNewlines",
      "BarSeparators", "EmDashSeparators", "DashSeparators", "EqualsSeparators",
      "DropLoneBullets", "SplitBullets", "SplitStars", "SplitNumbered",
      "SplitLines">>

\* some statement of parse_recipe_text can run: the conditions under which
\* the actions of Next are enabled (what each assigns is always defined)
CanStep ==
    \/ pc \in Range(NormalizerSteps)
    \/ AtIngredientHeader
    \/ AtInstructionHeader
    \/ AtShortLine
    \/ InIngredients
    \/ InInstructions
    \/ AtStep
    \/ AtGuessedIngredient
    \/ AtGuessedInstruction
    \/ ScanOver

\* A second call of parse_recipe_text, on the instructions the first call
\* returned, one per line.
Refeed ==
    /\ pc = "done"
    /\ pass = 1
    /\ text' = Join(instructions)
    /\ prevInstructions' = instructions
    /\ pass' = 2
    /\ pc' = "UnescapeNewlines"
    /\ normalized' = <<>>
    /\ lines' = <<>>
    /\ idx' = 0
    /\ current_section' = "None"
    /\ ingredients' = <<>>
    /\ instructions' = <<>>
    /\ ingSrc' = <<>>
    /\ insSrc' = <<>>
    /\ UNCHANGED storeVars

NextRefeed == Next \/ Refeed

SpecRefeed == Init /\ [][NextRefeed]_vars

---------------------------------------------------------------------------
(* The same call on texts chosen for header detection.                     *)

BothHeaderPiece ==
    <<"M", "e", "t", "h", "o", "d", " ", "a", "n", "d", " ", "i", "n",
      "g", "r", "e", "d", "i", "e", "n", "t", "s", NL>>

NumberedHeaderPiece ==
    <<"2", ".", " ", "M", "e", "t", "h", "o", "d", NL>>

\* a line of n characters that holds a header keyword
LongIngredientsPiece(n) ==
    <<"I", "n", "g", "r", "e", "d", "i", "e", "n", "t", "s", " ">>
        \o [k \in 1..(n - 12) |-> "x"] \o <<NL>>

LongStepsPiece(n) ==
    <<"S", "t", "e", "p", "s", " ">> \o [k \in 1..(n - 6) |-> "x"] \o <<NL>>

HeaderPieces ==
    { IngredientsHeaderPiece, InstructionsHeaderPiece, CupsPiece, DashPiece,
      BothHeaderPiece, NumberedHeaderPiece,
      LongIngredientsPiece(IngredientHeaderMaxLen - 1),
      LongIngredientsPiece(IngredientHeaderMaxLen),
      LongStepsPiece(InstructionHeaderMaxLen - 1),
      LongStepsPiece(InstructionHeaderMaxLen) }

HeaderTexts ==
    { Concat(ps) : ps \in UNION { [1..n -> HeaderPieces] : n \in 0..MaxPieces } }

\* the state at the entry of a call whose argument is one of texts
Entry(texts) ==
    /\ text \in texts
    /\ normalized = <<>>
    /\ lines = <<>>
    /\ idx = 0
    /\ current_section = "None"
    /\ ingredients = <<>>
    /\ instructions = <<>>
    /\ ingSrc = <<>>
    /\ insSrc = <<>>
    /\ pc = "UnescapeNewlines"
    /\ pass = 1
    /\ prevInstructions = <<>>
    /\ NoScriptRuns

InitHeaders == Entry(HeaderTexts)

SpecHeaders == InitHeaders /\ [][Next]_vars

---------------------------------------------------------------------------
(* The same call on texts that hold line breaks of every kind.             *)

CarriageReturnPiece ==
    <<"s", "t", "i", "r", CR, "w", "e", "l", "l", NL>>

CrLfPiece ==
    <<"w", "h", "i", "s", "k", CR, NL>>

TabPiece ==
    <<"s", "a", "l", "t", TAB, "p", "e", "p", "p", "e", "r", NL>>

EscapedCrPiece ==
    <<BSL, "r">>

BreakPieces ==
    { IngredientsHeaderPiece, InstructionsHeaderPiece, CupsPiece, PreheatPiece,
      MixPiece, DashPiece, EscapedNewlinePiece, EscapedCrPiece,
      CarriageReturnPiece, CrLfPiece, TabPiece }

BreakTexts ==
    { Concat(ps) : ps \in UNION { [1..n -> BreakPieces] : n \in 0..MaxPieces } }

InitBreaks == Entry(BreakTexts)

SpecBreaks == InitBreaks /\ [][Next]_vars

---------------------------------------------------------------------------
(* Vocabulary of the properties.                                           *)

Increasing(seq) == \A a, b \in DOMAIN seq : a < b => seq[a] < seq[b]

\* e is what is left of l after a prefix is cut off
IsSuffix(e, l) == Len(e) <= Len(l) /\ e = From(l, Len(l) - Len(e) + 1)

IsHeader(l) == is_ingredient_header(l) \/ is_instruction_header(l)

\* a bullet marker or a numbered-list marker at the start of e
HasLeadingMarker(e) == e # <<>> /\ (IsBullet(e[1]) \/ is_numbered(e))

\* a numbered-list marker in front of l, and text after it
NumberedWithText(l) == is_numbered(l) /\ StripNumber(l) # <<>>

\* the element of instructions that comes from line k is e
InstructionFrom(k, e) ==
    \E j \in DOMAIN insSrc : insSrc[j] = k /\ instructions[j] = e

\* the element of ingredients that comes from line k is e
IngredientFrom(k, e) ==
    \E j \in DOMAIN ingSrc : ingSrc[j] = k /\ ingredients[j] = e

Returned == pc = "done"

\* the section the last header among the first n lines of ls names
RECURSIVE LastHeaderKind(_, _)
LastHeaderKind(ls, n) ==
    IF n = 0 THEN "None"
    ELSE IF is_ingredient_header(ls[n]) THEN "ingredients"
    ELSE IF is_instruction_header(ls[n]) THEN "instructions"
    ELSE LastHeaderKind(ls, n - 1)

\* line k is scanned in section sec and is neither a header nor short
ScannedIn(k, sec) ==
    /\ ~IsHeader(lines[k])
    /\ Len(lines[k]) >= MinLineLen
    /\ LastHeaderKind(lines, k - 1) = sec

---------------------------------------------------------------------------
(* C1: every normalized line contributes at most one element to the two    *)
(* output lists together (never to both lists, never twice to one), each   *)
(* element is the text of its line less a stripped prefix, and inside each *)
(* list the elements stand in the order of the lines they come from.       *)
C1_OneElementPerLineInOrder ==
    /\ Len(ingSrc) = Len(ingredients)
    /\ Len(insSrc) = Len(instructions)
    /\ Range(ingSrc) \cup Range(insSrc) \subseteq 1..Len(lines)
    /\ Increasing(ingSrc)
    /\ Increasing(insSrc)
    /\ Range(ingSrc) \cap Range(insSrc) = {}
    /\ \A j \in DOMAIN ingSrc : IsSuffix(ingredients[j], lines[ingSrc[j]])
    /\ \A j \in DOMAIN insSrc : IsSuffix(instructions[j], lines[insSrc[j]])

\* a call has returned one ingredient and two instructions
C1_Witness ==
    /\ Returned
    /\ Len(ingredients) >= 1
    /\ Len(instructions) >= 2

(* C2: no returned string starts with a bullet marker or a numbered-list   *)
(* marker.                                                                 *)
C2_NoLeadingMarker ==
    Returned =>
        /\ \A j \in DOMAIN ingredients : ~HasLeadingMarker(ingredients[j])
        /\ \A j \in DOMAIN instructions : ~HasLeadingMarker(instructions[j])

IsContent(l) ==
    /\ ~IsHeader(l)
    /\ Len(l) >= MinLineLen
    /\ cleaned_instruction(l) # <<>>

(* C4: when the lines hold one ingredients header and, later, one          *)
(* instructions header, every content line between the two is returned in  *)
(* ingredients, every content line after the second in instructions, and   *)
(* neither header line is returned in either list.                         *)
C4_HeadersSplitTheLines ==
    Returned =>
        \A a, b \in DOMAIN lines :
            ( /\ a < b
              /\ is_ingredient_header(lines[a])
              /\ ~is_ingredient_header(lines[b]) /\ is_instruction_header(lines[b])
              /\ \A k \in DOMAIN lines : IsHeader(lines[k]) => k \in {a, b} )
            => /\ \A k \in (a + 1)..(b - 1) :
                    IsContent(lines[k]) => k \in Range(ingSrc) \ Range(insSrc)
               /\ \A k \in (b + 1)..Len(lines) :
                    IsContent(lines[k]) => k \in Range(insSrc) \ Range(ingSrc)
               /\ {a, b} \cap (Range(ingSrc) \cup Range(insSrc)) = {}

(* C5: a call returns both lists empty only when there is no normalized    *)
(* line; with at least one normalized line at least one list is non-empty; *)
(* and no call stops short of its return: until it has returned, some      *)
(* statement can run, with the loop index inside the lines.                *)
C5_EmptyOnlyForNoLines ==
    /\ Returned => (nothing_parsed <=> lines = <<>>)
    /\ ~Returned => CanStep
    /\ idx \in 0..Len(lines)

\* the scan kept nothing of two or more lines and the call still returned them
C5_Witness ==
    /\ Returned
    /\ Len(lines) >= 2
    /\ idx = Len(lines)
    /\ \A k \in DOMAIN lines : IsHeader(lines[k]) \/ Len(lines[k]) < MinLineLen
    /\ instructions # <<>>

\* the second call, on the instructions of the first, has returned
Refed == pass = 2 /\ Returned

(* C6 as stated: fed back one per line, the instructions of any call come  *)
(* back unchanged, all in instructions, with ingredients empty.            *)
C6_RefeedReproduces ==
    Refed => (instructions = prevInstructions /\ ingredients = <<>>)

\* a line that carries no signal: long enough to be kept, no header keyword
\* (or too long for a header), no list marker in front, and not both
\* unit-bearing and under the length of an ingredient
PlainLine(l) ==
    /\ Len(l) >= MinLineLen
    /\ ~IsHeader(l)
    /\ ~HasLeadingMarker(l)
    /\ ~((has_measurement(l) \/ starts_with_number_quantity(l)) /\ Len(l) < ShortLineLen)

\* the second call's normalizer gave back the fed lines as they were: none
\* of them holds a separator, a bullet or a marker the normalizer rewrites
SurvivedNormalizing == lines = prevInstructions

(* C6 as amended: fed back one per line, the instructions of a call come   *)
(* back unchanged, all in instructions, with ingredients empty, provided   *)
(* the normalizer leaves them as they are and every one of them is a plain *)
(* line.                                                                   *)
C6_RefeedReproducesPlainLines ==
    ( /\ Refed
      /\ SurvivedNormalizing
      /\ \A j \in DOMAIN prevInstructions : PlainLine(prevInstructions[j]) )
        => (instructions = prevInstructions /\ ingredients = <<>>)

\* two plain instructions were fed back and returned
C6_Witness ==
    /\ Refed
    /\ Len(prevInstructions) >= 2
    /\ SurvivedNormalizing
    /\ \A j \in DOMAIN prevInstructions : PlainLine(prevInstructions[j])
    /\ instructions = prevInstructions

(* C7: a line detected as a section header is never returned in either     *)
(* list.                                                                   *)
C7_HeaderNeverReturned ==
    Returned =>
        \A k \in DOMAIN lines :
            IsHeader(lines[k]) => k \notin Range(ingSrc) \cup Range(insSrc)

(* C8: every element of ingredients and of instructions is a non-empty     *)
(* string, at every point of the scan and at the return.                   *)
C8_ElementsNonEmpty ==
    /\ \A j \in DOMAIN ingredients : ingredients[j] # <<>>
    /\ \A j \in DOMAIN instructions : instructions[j] # <<>>

\* a line that is only a numbered-list marker was scanned and left out, next
\* to an instruction that was kept
C8_Witness ==
    /\ Returned
    /\ instructions # <<>>
    /\ \E k \in DOMAIN lines :
        /\ Len(lines[k]) >= MinLineLen
        /\ is_numbered(lines[k])
        /\ StripNumber(lines[k]) = <<>>
        /\ k \notin Range(insSrc)

\* no header among the first k lines: line k is scanned with no section
NoHeaderUpTo(k) == \A m \in 1..k : ~IsHeader(lines[m])

\* a measurement-unit keyword, or a numeric quantity and a unit abbreviation
\* in front
UnitBearing(l) == has_measurement(l) \/ starts_with_number_quantity(l)

(* C9: a line scanned before any header, not numbered and not skipped as   *)
(* short, is returned as an ingredient exactly when it is unit-bearing and *)
(* strictly shorter than 150 characters, and as an instruction otherwise;  *)
(* "2 cups flour" is an ingredient and "Mix the flour and sugar together   *)
(* until combined." an instruction.                                        *)
C9_ContentDecidesWithoutHeader ==
    Returned =>
        /\ \A k \in DOMAIN lines :
            (NoHeaderUpTo(k) /\ ~is_numbered(lines[k]) /\ Len(lines[k]) >= MinLineLen)
                => IF UnitBearing(lines[k]) /\ Len(lines[k]) < ShortLineLen
                   THEN /\ IngredientFrom(k, StripBullet(lines[k]))
                        /\ k \notin Range(insSrc)
                   ELSE /\ InstructionFrom(k, StripBullet(lines[k]))
                        /\ k \notin Range(ingSrc)
        /\ text = CupsPiece
            => (ingredients = <<Strip(CupsPiece)>> /\ instructions = <<>>)
        /\ text = MixPiece
            => (ingredients = <<>> /\ instructions = <<Strip(MixPiece)>>)

\* a unit-bearing line of 149 characters was returned as an ingredient and
\* one of 150 characters as an instruction
C9_Witness ==
    /\ Returned
    /\ \E k \in DOMAIN lines :
        /\ NoHeaderUpTo(k) /\ UnitBearing(lines[k])
        /\ Len(lines[k]) = ShortLineLen - 1
        /\ k \in Range(ingSrc)
    /\ \E k \in DOMAIN lines :
        /\ NoHeaderUpTo(k) /\ UnitBearing(lines[k])
        /\ Len(lines[k]) = ShortLineLen
        /\ k \in Range(insSrc)

HasKeyword(l, keywords) == \E keyword \in keywords : Contains(Lower(l), keyword)

\* a header candidate: shorter than 100 characters and not numbered
HeaderCandidate(l) ==
    /\ ~is_numbered(l)
    /\ Len(l) < IngredientHeaderMaxLen
    /\ Len(l) < InstructionHeaderMaxLen

\* a header candidate that holds a keyword of both lists
BothKinds(l) ==
    /\ HeaderCandidate(l)
    /\ HasKeyword(l, ingredient_keywords)
    /\ HasKeyword(l, instruction_keywords)

(* C11: scanning a header candidate that holds both an ingredients keyword *)
(* and an instructions keyword sets the section to ingredients, and adds   *)
(* nothing to the lists.                                                   *)
C11_IngredientsHeaderWins ==
    [][(Scanning /\ BothKinds(line))
        => /\ current_section' = "ingredients"
           /\ idx' = idx + 1
           /\ UNCHANGED <<ingredients, instructions>>]_vars

\* in the instructions section, a line with keywords of both lists has just
\* been scanned and the section is ingredients
C11_Witness ==
    /\ pc = "scan"
    /\ idx >= 2
    /\ BothKinds(lines[idx])
    /\ LastHeaderKind(lines, idx - 1) = "instructions"
    /\ current_section = "ingredients"

\* what the content branches of the loop keep of line l in section sec
Kept(l, sec) ==
    IF sec = "ingredients" THEN cleaned_ingredient(l)
    ELSE IF sec = "instructions" THEN cleaned_instruction(l)
    ELSE IF is_numbered(l) THEN cleaned_step(l)
    ELSE StripBullet(l)

\* the step appends e to exactly one of the two lists
AppendsOne(e) ==
    \/ ingredients' = Append(ingredients, e) /\ instructions' = instructions
    \/ instructions' = Append(instructions, e) /\ ingredients' = ingredients

(* C12: scanning a line of 100 or more characters, or a numbered line,     *)
(* never changes the section, whatever keyword the line holds: the line is *)
(* content (skipped when shorter than 3 characters, else what is left of   *)
(* it after marker stripping is appended to one list, if anything is       *)
(* left); scanning a non-numbered line shorter than 100 characters that    *)
(* holds a header keyword anywhere sets the section and appends nothing.   *)
C12_HeaderCandidatesOnly ==
    [][Scanning =>
        /\ ~HeaderCandidate(line)
            => /\ current_section' = current_section
               /\ IF Len(line) < MinLineLen \/ Kept(line, current_section) = <<>>
                  THEN UNCHANGED <<ingredients, instructions>>
                  ELSE AppendsOne(Kept(line, current_section))
        /\ ( /\ HeaderCandidate(line)
             /\ \/ HasKeyword(line, ingredient_keywords)
                \/ HasKeyword(line, instruction_keywords) )
            => /\ current_section' \in {"ingredients", "instructions"}
               /\ current_section' = "ingredients"
                    <=> HasKeyword(line, ingredient_keywords)
               /\ UNCHANGED <<ingredients, instructions>>]_vars

\* a keyword line of 99 characters was taken as a header, the keyword line
\* of 100 characters and the numbered keyword line after it as content
C12_Witness ==
    /\ Returned
    /\ \E h, k, n \in DOMAIN lines :
        /\ h < k /\ h < n
        /\ Len(lines[h]) = IngredientHeaderMaxLen - 1
        /\ HasKeyword(lines[h], ingredient_keywords)
        /\ h \notin Range(ingSrc) \cup Range(insSrc)
        /\ Len(lines[k]) = IngredientHeaderMaxLen
        /\ HasKeyword(lines[k], ingredient_keywords)
        /\ k \in Range(ingSrc)
        /\ is_numbered(lines[n])
        /\ HasKeyword(lines[n], instruction_keywords)
        /\ n \in Range(ingSrc)

(* C13: when the scan ends with both lists empty, the call returns         *)
(* ingredients empty and instructions equal to the normalized lines, all   *)
(* of them, in order and as they are; when the scan ends with a list       *)
(* non-empty, the lists are returned as the scan left them.                *)
C13_FallbackReturnsLines ==
    [][ScanOver =>
        /\ pc' = "done"
        /\ IF nothing_parsed
           THEN ingredients' = <<>> /\ instructions' = lines
           ELSE UNCHANGED <<ingredients, instructions>>]_vars

\* the scan kept nothing of a header and a short line, and both came back
\* as instructions
C13_Witness ==
    /\ Returned
    /\ ingredients = <<>>
    /\ instructions = lines
    /\ \E h, k \in DOMAIN lines :
        /\ IsHeader(lines[h])
        /\ ~IsHeader(lines[k]) /\ Len(lines[k]) < MinLineLen

(* C14: a line scanned before any header that starts with a bullet marker  *)
(* and is not numbered is returned as an ingredient exactly when the line  *)
(* without its bullet marker, scanned in its place, would be.              *)
C14_BulletStrippedBeforeTests ==
    Returned =>
        \A k \in DOMAIN lines :
            ( /\ NoHeaderUpTo(k)
              /\ Len(lines[k]) >= MinLineLen
              /\ IsBullet(lines[k][1])
              /\ Len(StripBullet(lines[k])) >= MinLineLen
              /\ ~IsHeader(StripBullet(lines[k])) )
            => ( k \in Range(ingSrc)
                    <=> /\ ~is_numbered(StripBullet(lines[k]))
                        /\ guessed_ingredient(StripBullet(lines[k])) )

\* the normalizer has produced the lines
Normalized == pc \in {"scan", "done"}

(* C15: every line the normalizer produces is non-empty, has no whitespace *)
(* at either end, and holds no line feed, no carriage return and no tab.   *)
C15_LinesHoldNoBreak ==
    Normalized =>
        \A k \in DOMAIN lines :
            /\ lines[k] # <<>>
            /\ ~IsSpace(lines[k][1])
            /\ ~IsSpace(lines[k][Len(lines[k])])
            /\ \A p \in DOMAIN lines[k] : lines[k][p] \notin {NL, CR, TAB}

\* the number of elements of the two lists that come from line k
Contributions(k) ==
    Cardinality({j \in DOMAIN ingSrc : ingSrc[j] = k})
        + Cardinality({j \in DOMAIN insSrc : insSrc[j] = k})

\* nothing is left of l once its list markers are stripped
OnlyMarkers(l) == cleaned_instruction(l) = <<>>

(* C16: when the scan ends with a list non-empty (the global fallback does *)
(* not fire and the lists are returned as they are), every line that is    *)
(* not a header, has at least 3 characters and is non-empty after marker   *)
(* stripping has given exactly one element to exactly one list, and every  *)
(* line that has given none is a header, is shorter than 3 characters or   *)
(* holds nothing but list markers.                                         *)
C16_OnlyHeadersShortAndMarkersDropped ==
    (ScanOver /\ ~nothing_parsed) =>
        \A k \in DOMAIN lines :
            /\ ( /\ ~IsHeader(lines[k])
                 /\ Len(lines[k]) >= MinLineLen
                 /\ ~OnlyMarkers(lines[k]) )
                => Contributions(k) = 1
            /\ Contributions(k) = 0
                => \/ IsHeader(lines[k])
                   \/ Len(lines[k]) < MinLineLen
                   \/ OnlyMarkers(lines[k])

\* the scan ended with a header and a line that is only a marker left out
\* and another line kept
C16_Witness ==
    /\ ScanOver
    /\ ~nothing_parsed
    /\ \E h, m, k \in DOMAIN lines :
        /\ IsHeader(lines[h]) /\ Contributions(h) = 0
        /\ ~IsHeader(lines[m]) /\ Len(lines[m]) >= MinLineLen
        /\ OnlyMarkers(lines[m]) /\ Contributions(m) = 0
        /\ Contributions(k) = 1

---------------------------------------------------------------------------
(* Properties of the collection scripts.                                   *)

\* the ids of recipes are pairwise distinct
DistinctIds(recipes) ==
    \A j, k \in DOMAIN recipes : recipes[j].id = recipes[k].id => j = k

\* the records of recipes whose id is not recipe_id, in order
OtherRecords(recipes, recipe_id) ==
    LET keep == {k \in DOMAIN recipes : recipes[k].id # recipe_id}
        Nth(n) == CHOOSE k \in keep : Cardinality({j \in keep : j <= k}) = n
    IN  [n \in 1..Cardinality(keep) |-> recipes[Nth(n)]]

\* this step is run r of one of ops returning True
Succeeds(r, ops) ==
    /\ runs[r].at = "loaded"
    /\ runs[r].op \in ops
    /\ runs'[r].at = "done"
    /\ runs'[r].result = "True"

\* this step is run r of one of ops returning False
Fails(r, ops) ==
    /\ runs[r].at = "loaded"
    /\ runs[r].op \in ops
    /\ runs'[r].at = "done"
    /\ runs'[r].result = "False"

AddOps == {"add_recipe_manual", "add_recipe"}

\* C17: with runs executed one at a time, a step never turns a collection of
\* pairwise distinct ids into one with a repeated id; and an add that saves
\* leaves exactly one record with the new id, as the last element, and the
\* records with other ids as they were, in their order.
C17_IdsStayDistinct ==
    [][ /\ DistinctIds(load_recipes) => DistinctIds(load_recipes')
        /\ Succeeds(1, AddOps) =>
             /\ Cardinality({k \in DOMAIN file_recipes' :
                    file_recipes'[k].id = runs[1].recipe_data.id}) = 1
             /\ file_recipes'[Len(file_recipes')] = runs[1].recipe_data
             /\ OtherRecords(file_recipes', runs[1].recipe_data.id)
                  = OtherRecords(load_recipes, runs[1].recipe_data.id) ]_vars

\* an add has replaced a record of the same id in a collection of distinct
\* ids that holds another record too
C17_Witness ==
    /\ runs[1].op \in AddOps
    /\ runs[1].at = "done"
    /\ runs[1].result = "True"
    /\ DistinctIds(runs[1].loaded)
    /\ runs[1].recipe_data.id \in existing_ids(runs[1].loaded)
    /\ Len(runs[1].loaded) >= 2
    /\ file_recipes = runs[1].recipes
    /\ file_recipes[1].id # runs[1].recipe_data.id

EditOps == {"delete_recipe", "update_recipe_notes", "update_recipe_metadata"}

\* the stored collection is empty or missing, or holds no record of recipe_id
NoSuchRecord(recipe_id) ==
    \/ ~file_exists
    \/ file_recipes = <<>>
    \/ \A k \in DOMAIN file_recipes : file_recipes[k].id # recipe_id

\* updates gives no field a value
NothingProvided(updates) == \A f \in MetadataFields : updates[f] \in {Absent, None}

\* C18: when a delete_recipe, update_recipe_notes or update_recipe_metadata
\* run finishes and the stored collection is empty or missing or holds no
\* record of the given id, or (update_recipe_metadata) no updatable field was
\* provided, the run returns False and the recipes file is not written.
C18_FailsWithoutWriting ==
    [][ ( /\ runs[1].at = "loaded"
          /\ runs[1].op \in EditOps
          /\ runs'[1].at = "done"
          /\ \/ NoSuchRecord(runs[1].recipe_id)
             \/ /\ runs[1].op = "update_recipe_metadata"
                /\ NothingProvided(runs[1].updates) )
        => /\ runs'[1].result = "False"
           /\ file_exists' = file_exists
           /\ file_recipes' = file_recipes ]_vars

\* update_recipe_metadata found the record, was given only a None and
\* returned False
C18_Witness ==
    /\ runs[1].op = "update_recipe_metadata"
    /\ runs[1].at = "done"
    /\ runs[1].result = "False"
    /\ ~NoSuchRecord(runs[1].recipe_id)
    /\ runs[1].updates.description = None
    /\ file_recipes = runs[1].loaded

\* k is the first record of recipe_id in the stored collection
IsFirstOf(k, recipe_id) ==
    /\ file_recipes[k].id = recipe_id
    /\ \A j \in 1..(k - 1) : file_recipes[j].id # recipe_id

\* the fields of a record
RecordFields == DOMAIN NoRecipe

\* the fields of updates that carry a value
ProvidedFields(updates) ==
    {f \in MetadataFields : updates[f] # Absent /\ updates[f] # None}

\* the written collection is the stored one except for record k, which
\* differs only in fields, set as values gives
OnlyChanged(k, fields, values) ==
    /\ Len(file_recipes') = Len(file_recipes)
    /\ \A j \in DOMAIN file_recipes : j # k => file_recipes'[j] = file_recipes[j]
    /\ \A f \in RecordFields \ fields : file_recipes'[k][f] = file_recipes[k][f]
    /\ \A f \in fields : file_recipes'[k][f] = values[f]

\* C19: a successful update_recipe_notes changes only the notes, and a
\* successful update_recipe_metadata only the provided fields, of the first
\* record of the id: its other fields, the other records, their order and
\* number stay; a successful delete_recipe leaves exactly the records of other
\* ids, unchanged and in order.
C19_OnlyNamedFieldsChange ==
    [][ /\ Succeeds(1, {"update_recipe_notes"}) =>
             \E k \in DOMAIN file_recipes :
                /\ IsFirstOf(k, runs[1].recipe_id)
                /\ OnlyChanged(k, {"notes"}, [notes |-> runs[1].notes])
        /\ Succeeds(1, {"update_recipe_metadata"}) =>
             \E k \in DOMAIN file_recipes :
                /\ IsFirstOf(k, runs[1].recipe_id)
                /\ OnlyChanged(k, ProvidedFields(runs[1].updates), runs[1].updates)
        /\ Succeeds(1, {"delete_recipe"}) =>
             /\ file_recipes' = OtherRecords(file_recipes, runs[1].recipe_id)
             /\ \A k \in DOMAIN file_recipes' :
                   file_recipes'[k].id # runs[1].recipe_id ]_vars

\* update_recipe_notes has set the notes of the first of two records of the
\* same id and left the second as it was
C19_Witness ==
    /\ runs[1].op = "update_recipe_notes"
    /\ runs[1].at = "done"
    /\ runs[1].result = "True"
    /\ Len(file_recipes) >= 2
    /\ file_recipes[1].id = runs[1].recipe_id
    /\ file_recipes[2].id = runs[1].recipe_id
    /\ file_recipes[1].notes = runs[1].notes
    /\ file_recipes[2].notes # runs[1].notes

\* run r has returned True
ReturnedTrue(r) == runs[r].at = "done" /\ runs[r].result = "True"

\* the recipes file shows what run r did: the record it added, or the notes
\* it set on the first record of its id
Reflected(r) ==
    IF runs[r].op = "add_recipe_manual"
    THEN \E k \in DOMAIN file_recipes : file_recipes[k] = runs[r].recipe_data
    ELSE \E k \in DOMAIN file_recipes :
            /\ IsFirstOf(k, runs[r].recipe_id)
            /\ file_recipes[k].notes = runs[r].notes

\* the id run r works on
TargetId(r) ==
    IF runs[r].op = "add_recipe_manual" THEN runs[r].recipe_data.id
    ELSE runs[r].recipe_id

\* C20: when an add_recipe_manual run and another add_recipe_manual or
\* update_recipe_notes run on a different id have both returned True, in
\* whatever order their loads and saves were interleaved, the recipes file
\* reflects both modifications.
C20_NoUpdateLost ==
    \A r, q \in Runs :
        ( /\ r # q
          /\ runs[r].op = "add_recipe_manual"
          /\ runs[q].op \in {"add_recipe_manual", "update_recipe_notes"}
          /\ TargetId(r) # TargetId(q)
          /\ ReturnedTrue(r)
          /\ ReturnedTrue(q) )
        => Reflected(r) /\ Reflected(q)

=============================================================================
